---- MODULE Spec2Model ----
(***************************************************************************)
(* A model of src/circuit/ops/lookup.rs: the LookupOp catalog and its      *)
(* entry points bit_range, as_path, f, layout and out_scale.               *)
(*                                                                         *)
(* Every entry point is a function of its arguments (layout also of the    *)
(* circuit configuration and the region it is handed), so the state is     *)
(* the last call made (entry, args), what it returned (ret) and the        *)
(* mutable circuit state the layout engine works on.                       *)
(***************************************************************************)
EXTENDS Integers, Sequences, FiniteSets, TLC

VARIABLES entry, args, ret, config, region, nl_calls

vars == <<entry, args, ret, config, region, nl_calls>>

(***************************************************************************)
(* Results.  A Rust Result is Ok(v) or Err(e); a panic (an abort of the    *)
(* calling thread) is a third outcome, which is not a value of the         *)
(* function.                                                               *)
(***************************************************************************)
Ok(v) == [kind |-> "Ok", val |-> v]

Err(e) == [kind |-> "Err", val |-> e]

Panic(msg) == [kind |-> "Panic", val |-> msg]

(***************************************************************************)
(* Unsigned integers as bit strings, least significant bit first, without  *)
(* leading zeros (<<>> is 0).  usize and f64 carry more bits than a TLC    *)
(* integer does, so bit_range is computed on bit strings.                  *)
(***************************************************************************)
RECURSIVE Bits(_)
Bits(n) == IF n = 0 THEN <<>> ELSE <<n % 2>> \o Bits(n \div 2)

RECURSIVE Zeros(_)
Zeros(k) == IF k = 0 THEN <<>> ELSE <<0>> \o Zeros(k - 1)

RECURSIVE Ones(_)
Ones(k) == IF k = 0 THEN <<>> ELSE <<1>> \o Ones(k - 1)

\* 2^k + d, for 0 <= d < 2^k
Pow2Plus(k, d) == Bits(d) \o Zeros(k - Len(Bits(d))) \o <<1>>

RECURSIVE BitsNorm(_)
BitsNorm(b) ==
    IF b = <<>> THEN <<>>
    ELSE IF b[Len(b)] = 0 THEN BitsNorm(SubSeq(b, 1, Len(b) - 1))
    ELSE b

RECURSIVE BitsInc(_)
BitsInc(b) ==
    IF b = <<>> THEN <<1>>
    ELSE IF Head(b) = 0 THEN <<1>> \o Tail(b)
    ELSE <<0>> \o BitsInc(Tail(b))

\* b - 1, for b > 0
RECURSIVE BitsDec(_)
BitsDec(b) ==
    IF Head(b) = 1 THEN BitsNorm(<<0>> \o Tail(b))
    ELSE <<1>> \o BitsDec(Tail(b))

\* floor(b / 2^k)
BitsShr(b, k) == IF Len(b) <= k THEN <<>> ELSE SubSeq(b, k + 1, Len(b))

\* 2 * b + 1
BitsDoublePlusOne(b) == <<1>> \o b

\* a <= b
RECURSIVE BitsLeq(_, _)
BitsLeq(a, b) ==
    IF Len(a) # Len(b) THEN Len(a) < Len(b)
    ELSE IF a = <<>> THEN TRUE
    ELSE IF a[Len(a)] # b[Len(b)] THEN a[Len(a)] < b[Len(b)]
    ELSE BitsLeq(BitsNorm(SubSeq(a, 1, Len(a) - 1)),
                 BitsNorm(SubSeq(b, 1, Len(b) - 1)))

BitsIsOdd(b) == b # <<>> /\ Head(b) = 1

(***************************************************************************)
(* bit_range (lookup.rs 109-113)                                           *)
(***************************************************************************)
\* width of usize on a 64-bit target
UsizeBits == 64

\* bits of precision of an f64 significand (52 stored and the hidden bit)
F64MantBits == 53

\* usize subtraction max_len - 1: with overflow checks (debug profile) a
\* subtraction below zero panics, without them (release profile) it wraps.
UsizeSubOne(max_len, profile) ==
    IF max_len # <<>> THEN Ok(BitsDec(max_len))
    ELSE IF profile = "debug" THEN Panic("attempt to subtract with overflow")
    ELSE Ok(Ones(UsizeBits))

\* `n as f64`: the nearest f64, ties to the even significand.  The result
\* is an integer, given as [int |-> bits, exp |-> 0]: the value int * 2^exp.
UsizeAsF64(n) ==
    IF Len(n) <= F64MantBits THEN [int |-> n, exp |-> 0]
    ELSE LET s      == Len(n) - F64MantBits
             kept   == SubSeq(n, s + 1, Len(n))
             guard  == n[s]
             sticky == \E i \in 1..(s - 1) : n[i] = 1
             up     == guard = 1 /\ (sticky \/ kept[1] = 1)
             m      == IF up THEN BitsInc(kept) ELSE kept
         IN  [int |-> Zeros(s) \o m, exp |-> 0]

\* `v / 2_f64`: exact, the exponent drops by one
F64DivTwo(v) == [int |-> v.int, exp |-> v.exp - 1]

\* a signed IntegerRep as sign and magnitude
IntegerRep(neg, mag) == [neg |-> neg /\ mag # <<>>, mag |-> mag]

\* `v as IntegerRep` of a non-negative f64: truncation toward zero
F64AsIntegerRep(v) == IntegerRep(FALSE, BitsShr(v.int, 0 - v.exp))

IntegerRepNeg(v) == IntegerRep(~v.neg, v.mag)

bit_range(max_len, profile) ==
    LET sub == UsizeSubOne(max_len, profile)
    IN  IF sub.kind = "Panic" THEN sub
        ELSE LET range == F64AsIntegerRep(F64DivTwo(UsizeAsF64(sub.val)))
             IN  Ok(<<IntegerRepNeg(range), range>>)

(***************************************************************************)
(* The entry points are functions of their arguments: a behaviour draws    *)
(* the arguments of one call (entry, args), ret being Pending, and the     *)
(* call's action leaves its result in ret.                                 *)
(***************************************************************************)
Pending == [kind |-> "Pending", val |-> <<>>]

NoCalls == [count |-> 0, last |-> <<>>]

\* table lengths tried: 0..MaxLen, and 2^53 .. 2^53 + MaxDelta, where
\* max_len - 1 stops being exactly representable as an f64
MaxLen == 64

MaxDelta == 40

MaxLens ==
    {Bits(n) : n \in 0..MaxLen} \cup {Pow2Plus(F64MantBits, d) : d \in 0..MaxDelta}

Profiles == {"debug", "release"}

InitRange ==
    /\ entry = "bit_range"
    /\ args \in [max_len : MaxLens]
    /\ ret = Pending
    /\ config = 0
    /\ region = 0
    /\ nl_calls = NoCalls

CallBitRange ==
    /\ entry = "bit_range"
    /\ ret.kind = "Pending"
    /\ \E profile \in Profiles : ret' = bit_range(args.max_len, profile)
    /\ UNCHANGED <<entry, args, config, region, nl_calls>>

NextRange == CallBitRange

SpecRange == InitRange /\ [][NextRange]_vars

\* floor((max_len - 1) / 2), for max_len >= 1
HalfOf(max_len) == IntegerRep(FALSE, BitsShr(BitsDec(max_len), 1))

\* C3: for every max_len >= 1, bit_range(max_len) is (-half, half) with
\* half = floor((max_len - 1) / 2); bit_range(7) = (-3, 3),
\* bit_range(8) = (-3, 3) and bit_range(1) = (0, 0).
C3_BitRangeIsHalf ==
    (entry = "bit_range" /\ ret.kind # "Pending" /\ args.max_len # <<>>) =>
        /\ ret = Ok(<<IntegerRepNeg(HalfOf(args.max_len)), HalfOf(args.max_len)>>)
        /\ args.max_len = Bits(7) =>
               ret = Ok(<<IntegerRep(TRUE, Bits(3)), IntegerRep(FALSE, Bits(3))>>)
        /\ args.max_len = Bits(8) =>
               ret = Ok(<<IntegerRep(TRUE, Bits(3)), IntegerRep(FALSE, Bits(3))>>)
        /\ args.max_len = Bits(1) =>
               ret = Ok(<<IntegerRep(FALSE, <<>>), IntegerRep(FALSE, <<>>)>>)

\* C10: for every max_len >= 1 the range (min, max) of bit_range(max_len) is
\* symmetric (min = -max, max >= 0) and holds max - min + 1 = 2 * max + 1
\* integers: max_len of them when max_len is odd, max_len - 1 when it is
\* even, and so never more than the table has rows.
C10_RangeFitsTable ==
    (entry = "bit_range" /\ ret.kind # "Pending" /\ args.max_len # <<>>) =>
        /\ ret.kind = "Ok"
        /\ ret.val[1] = IntegerRepNeg(ret.val[2])
        /\ ~ret.val[2].neg
        /\ LET count == BitsDoublePlusOne(ret.val[2].mag)
           IN  /\ BitsLeq(count, args.max_len)
               /\ count = IF BitsIsOdd(args.max_len) THEN args.max_len
                          ELSE BitsDec(args.max_len)

\* the part of C3 and C10 that the code keeps: lengths up to 2^53 + 1
ExactLen(max_len) == max_len # <<>> /\ BitsLeq(max_len, Pow2Plus(F64MantBits, 1))

BitRangeExactLens ==
    (entry = "bit_range" /\ ret.kind # "Pending" /\ ExactLen(args.max_len)) =>
        /\ ret = Ok(<<IntegerRepNeg(HalfOf(args.max_len)), HalfOf(args.max_len)>>)
        /\ BitsDoublePlusOne(ret.val[2].mag) =
               IF BitsIsOdd(args.max_len) THEN args.max_len ELSE BitsDec(args.max_len)

(***************************************************************************)
(* utils::F32, the f32 wrapper that carries every parameter of a LookupOp  *)
(* (lookup.rs 18-104).  An f32 is its three bit fields.                    *)
(***************************************************************************)
F32MantBits == 23

F32ExpBias == 127

F32ExpMax == 255

RECURSIVE Pow2(_)
Pow2(n) == IF n = 0 THEN 1 ELSE 2 * Pow2(n - 1)

F32(sign, exp, mant) == [sign |-> sign, exp |-> exp, mant |-> mant]

F32IsNaN(x) == x.exp = F32ExpMax /\ x.mant # 0

F32IsInf(x) == x.exp = F32ExpMax /\ x.mant = 0

F32IsZero(x) == x.exp = 0 /\ x.mant = 0

\* the powers of two 2^e
F32Pow2(sign, e) == F32(sign, F32ExpBias + e, 0)

\* equality of two F32: the wrapper gives the float a total equality, two
\* values being equal when their bits are
F32Eq(x, y) == x.sign = y.sign /\ x.exp = y.exp /\ x.mant = y.mant

DIGITS == <<"0", "1", "2", "3", "4", "5", "6", "7", "8", "9">>

RECURSIVE IntStr(_)
IntStr(n) == IF n < 10 THEN DIGITS[n + 1] ELSE IntStr(n \div 10) \o DIGITS[(n % 10) + 1]

\* the decimal digits of r / d, 0 <= r < d, d a power of two
RECURSIVE FracStr(_, _)
FracStr(r, d) ==
    IF r = 0 THEN "" ELSE DIGITS[((r * 10) \div d) + 1] \o FracStr((r * 10) % d, d)

\* n * 2^k with n odd or k = 0, from n * 2^k
RECURSIVE OddPart(_, _)
OddPart(n, k) == IF n % 2 = 0 /\ k < 0 THEN OddPart(n \div 2, k + 1) ELSE <<n, k>>

\* `{}` of an f32 (Display): "NaN" for every NaN, "inf", and otherwise the
\* shortest decimal that reads back as the same f32, never in exponent
\* form, zero keeping its sign.  For the normal values with a short binary
\* significand that the model draws, that decimal is the exact one.
F32Display(x) ==
    IF F32IsNaN(x) THEN "NaN"
    ELSE (IF x.sign = 1 THEN "-" ELSE "") \o
         (IF F32IsInf(x) THEN "inf"
          ELSE IF F32IsZero(x) THEN "0"
          ELSE LET nk == OddPart(Pow2(F32MantBits) + x.mant,
                                 x.exp - F32ExpBias - F32MantBits)
                   n  == nk[1]
                   k  == nk[2]
               IN  IF k >= 0 THEN IntStr(n * Pow2(k))
                   ELSE IntStr(n \div Pow2(0 - k)) \o "." \o
                        FracStr(n % Pow2(0 - k), Pow2(0 - k)))

(***************************************************************************)
(* LookupOp (lookup.rs 16-105): a variant tag and its F32 fields in the    *)
(* order of declaration                                                    *)
(***************************************************************************)
LookupOp(tag, params) == [tag |-> tag, params |-> params]

\* the variants with one F32 field
OneFieldTags ==
    {
     "Div", "Cast", "Ceil", "Floor", "Round", "RoundHalfToEven", "Sqrt",
     "Rsqrt", "LeakyReLU", "Sigmoid", "Ln", "Exp", "Cos", "ACos", "Cosh",
     "ACosh", "Sin", "ASin", "Sinh", "ASinh", "Tan", "ATan", "Tanh",
     "ATanh", "Erf", "HardSwish"}

\* Recip {input_scale, output_scale} and Pow {scale, a}
TwoFieldTags == {"Recip", "Pow"}

LookupOps(V) ==
    {LookupOp("KroneckerDelta", <<>>)}
        \cup {LookupOp(t, <<p>>) : t \in OneFieldTags, p \in V}
        \cup {LookupOp(t, <<p, q>>) : t \in TwoFieldTags, p \in V, q \in V}

\* derive(PartialEq) on LookupOp: the same variant and equal fields
LookupOpEq(a, b) ==
    /\ a.tag = b.tag
    /\ \A i \in 1..Len(a.params) : F32Eq(a.params[i], b.params[i])

as_path(self) ==
    CASE self.tag = "Ceil" -> "ceil_" \o F32Display(self.params[1])
      [] self.tag = "Floor" -> "floor_" \o F32Display(self.params[1])
      [] self.tag = "Round" -> "round_" \o F32Display(self.params[1])
      [] self.tag = "RoundHalfToEven" -> "round_half_to_even_" \o F32Display(self.params[1])
      [] self.tag = "Pow" -> "pow_" \o F32Display(self.params[1]) \o "_" \o F32Display(self.params[2])
      [] self.tag = "KroneckerDelta" -> "kronecker_delta"
      [] self.tag = "Div" -> "div_" \o F32Display(self.params[1])
      [] self.tag = "Cast" -> "cast_" \o F32Display(self.params[1])
      [] self.tag = "Recip" -> "recip_" \o F32Display(self.params[1]) \o "_" \o F32Display(self.params[2])
      [] self.tag = "LeakyReLU" -> "leaky_relu_" \o F32Display(self.params[1])
      [] self.tag = "Sigmoid" -> "sigmoid_" \o F32Display(self.params[1])
      [] self.tag = "Sqrt" -> "sqrt_" \o F32Display(self.params[1])
      [] self.tag = "Rsqrt" -> "rsqrt_" \o F32Display(self.params[1])
      [] self.tag = "Erf" -> "erf_" \o F32Display(self.params[1])
      [] self.tag = "Exp" -> "exp_" \o F32Display(self.params[1])
      [] self.tag = "Ln" -> "ln_" \o F32Display(self.params[1])
      [] self.tag = "Cos" -> "cos_" \o F32Display(self.params[1])
      [] self.tag = "ACos" -> "acos_" \o F32Display(self.params[1])
      [] self.tag = "Cosh" -> "cosh_" \o F32Display(self.params[1])
      [] self.tag = "ACosh" -> "acosh_" \o F32Display(self.params[1])
      [] self.tag = "Sin" -> "sin_" \o F32Display(self.params[1])
      [] self.tag = "ASin" -> "asin_" \o F32Display(self.params[1])
      [] self.tag = "Sinh" -> "sinh_" \o F32Display(self.params[1])
      [] self.tag = "ASinh" -> "asinh_" \o F32Display(self.params[1])
      [] self.tag = "Tan" -> "tan_" \o F32Display(self.params[1])
      [] self.tag = "ATan" -> "atan_" \o F32Display(self.params[1])
      [] self.tag = "ATanh" -> "atanh_" \o F32Display(self.params[1])
      [] self.tag = "Tanh" -> "tanh_" \o F32Display(self.params[1])
      [] self.tag = "HardSwish" -> "hardswish_" \o F32Display(self.params[1])

(***************************************************************************)
(* The parameter values drawn: both zeros, the powers of two 2^e with      *)
(* |e| <= ExpSpread of both signs, both infinities and two NaNs that       *)
(* differ in their payload                                                 *)
(***************************************************************************)
ExpSpread == 1

F32QuietBit == Pow2(F32MantBits - 1)

F32Zeros == {F32(s, 0, 0) : s \in {0, 1}}

F32Finite == {F32Pow2(s, e) : s \in {0, 1}, e \in (0 - ExpSpread)..ExpSpread}

F32Infs == {F32(s, F32ExpMax, 0) : s \in {0, 1}}

F32NaNs == {F32(0, F32ExpMax, F32QuietBit), F32(0, F32ExpMax, F32QuietBit + 1)}

F32Values == F32Zeros \cup F32Finite \cup F32Infs \cup F32NaNs

(***************************************************************************)
(* The calls of as_path: the table cache asks for the keys of two          *)
(* operations and compares them                                            *)
(***************************************************************************)
InitPath ==
    /\ entry = "as_path"
    /\ args \in [a : LookupOps(F32Values), b : LookupOps(F32Values)]
    /\ ret = Pending
    /\ config = 0
    /\ region = 0
    /\ nl_calls = NoCalls

CallAsPath ==
    /\ entry = "as_path"
    /\ ret.kind = "Pending"
    /\ ret' = Ok([a |-> as_path(args.a), b |-> as_path(args.b)])
    /\ UNCHANGED <<entry, args, config, region, nl_calls>>

NextPath == CallAsPath

SpecPath == InitPath /\ [][NextPath]_vars

\* C2: as_path is injective with respect to the equality of operations:
\* as_path(a) = as_path(b) if and only if a = b, for any two operations,
\* signed zeros and NaNs among their parameters included.
C2_PathInjective ==
    (entry = "as_path" /\ ret.kind # "Pending") =>
        ((ret.val.a = ret.val.b) <=> LookupOpEq(args.a, args.b))

\* what the code keeps of C2: equal operations have equal paths, and two
\* operations without a NaN parameter that have equal paths are equal
NoNaN(op) == \A i \in 1..Len(op.params) : ~F32IsNaN(op.params[i])

PathInjectiveOffNaN ==
    (entry = "as_path" /\ ret.kind # "Pending") =>
        /\ LookupOpEq(args.a, args.b) => ret.val.a = ret.val.b
        /\ (NoNaN(args.a) /\ NoNaN(args.b) /\ ret.val.a = ret.val.b) =>
               LookupOpEq(args.a, args.b)

(***************************************************************************)
(* f64, the type the parameters are widened to                             *)
(***************************************************************************)
F64ExpBias == 1023

F64ExpMax == 2047

\* an f64 as its bit fields; the 52 fraction bits are the 23 bits frac_hi
\* above 29 bits frac_lo
F64(sign, exp, frac_hi, frac_lo) ==
    [sign |-> sign, exp |-> exp, frac_hi |-> frac_hi, frac_lo |-> frac_lo]

\* f32 -> f64 (`.into()`, `as f64`) of a zero, a normal value, an infinity
\* or a quiet NaN: exact, the exponent rebiased, the fraction padded
F32ToF64(x) ==
    F64(x.sign,
        IF x.exp = 0 THEN 0
        ELSE IF x.exp = F32ExpMax THEN F64ExpMax
        ELSE x.exp - F32ExpBias + F64ExpBias,
        x.mant, 0)

F64IsPow2(v) == v.exp > 0 /\ v.exp < F64ExpMax /\ v.frac_hi = 0 /\ v.frac_lo = 0

\* `1. / v` for a power of two, a zero, an infinity or a NaN
F64Recip(v) ==
    CASE F64IsPow2(v) -> F64(v.sign, 2 * F64ExpBias - v.exp, 0, 0)
      [] v.exp = 0 /\ v.frac_hi = 0 /\ v.frac_lo = 0 -> F64(v.sign, F64ExpMax, 0, 0)
      [] v.exp = F64ExpMax /\ v.frac_hi = 0 /\ v.frac_lo = 0 -> F64(v.sign, 0, 0, 0)
      [] v.exp = F64ExpMax /\ (v.frac_hi # 0 \/ v.frac_lo # 0) -> v

(***************************************************************************)
(* f (lookup.rs 154-258)                                                   *)
(***************************************************************************)
\* the prime field the tensors hold, cut down to the integers modulo
\* FieldModulus
FieldModulus == 5

Felts == 0..(FieldModulus - 1)

\* fieldutils::felt_to_integer_rep: the upper half of the field is the
\* negative integers
felt_to_integer_rep(x) == IF 2 * x > FieldModulus THEN x - FieldModulus ELSE x

\* fieldutils::integer_rep_to_felt
integer_rep_to_felt(i) == i % FieldModulus

Kernel(name, params) == [name |-> name, params |-> params]

\* the function of tensor::ops::nonlinearities an operation is matched to,
\* and the parameters it is handed
kernel_of(self) ==
    CASE self.tag = "Ceil" ->
            Kernel("ceil", <<F32ToF64(self.params[1])>>)
      [] self.tag = "Floor" ->
            Kernel("floor", <<F32ToF64(self.params[1])>>)
      [] self.tag = "Round" ->
            Kernel("round", <<F32ToF64(self.params[1])>>)
      [] self.tag = "RoundHalfToEven" ->
            Kernel("round_half_to_even", <<F32ToF64(self.params[1])>>)
      [] self.tag = "Pow" ->
            Kernel("pow", <<F32ToF64(self.params[1]), F32ToF64(self.params[2])>>)
      [] self.tag = "KroneckerDelta" ->
            Kernel("kronecker_delta", <<>>)
      [] self.tag = "Div" ->
            Kernel("const_div", <<F32ToF64(self.params[1])>>)
      [] self.tag = "Cast" ->
            Kernel("const_div", <<F32ToF64(self.params[1])>>)
      [] self.tag = "Recip" ->
            Kernel("recip", <<F32ToF64(self.params[1]), F32ToF64(self.params[2])>>)
      [] self.tag = "LeakyReLU" ->
            Kernel("leakyrelu", <<F32ToF64(self.params[1])>>)
      [] self.tag = "Sigmoid" ->
            Kernel("sigmoid", <<F32ToF64(self.params[1])>>)
      [] self.tag = "Sqrt" ->
            Kernel("sqrt", <<F32ToF64(self.params[1])>>)
      [] self.tag = "Rsqrt" ->
            Kernel("rsqrt", <<F32ToF64(self.params[1])>>)
      [] self.tag = "Erf" ->
            Kernel("erffunc", <<F32ToF64(self.params[1])>>)
      [] self.tag = "Exp" ->
            Kernel("exp", <<F32ToF64(self.params[1])>>)
      [] self.tag = "Ln" ->
            Kernel("ln", <<F32ToF64(self.params[1])>>)
      [] self.tag = "Cos" ->
            Kernel("cos", <<F32ToF64(self.params[1])>>)
      [] self.tag = "ACos" ->
            Kernel("acos", <<F32ToF64(self.params[1])>>)
      [] self.tag = "Cosh" ->
            Kernel("cosh", <<F32ToF64(self.params[1])>>)
      [] self.tag = "ACosh" ->
            Kernel("acosh", <<F32ToF64(self.params[1])>>)
      [] self.tag = "Sin" ->
            Kernel("sin", <<F32ToF64(self.params[1])>>)
      [] self.tag = "ASin" ->
            Kernel("asin", <<F32ToF64(self.params[1])>>)
      [] self.tag = "Sinh" ->
            Kernel("sinh", <<F32ToF64(self.params[1])>>)
      [] self.tag = "ASinh" ->
            Kernel("asinh", <<F32ToF64(self.params[1])>>)
      [] self.tag = "Tan" ->
            Kernel("tan", <<F32ToF64(self.params[1])>>)
      [] self.tag = "ATan" ->
            Kernel("atan", <<F32ToF64(self.params[1])>>)
      [] self.tag = "ATanh" ->
            Kernel("atanh", <<F32ToF64(self.params[1])>>)
      [] self.tag = "Tanh" ->
            Kernel("tanh", <<F32ToF64(self.params[1])>>)
      [] self.tag = "HardSwish" ->
            Kernel("hardswish", <<F32ToF64(self.params[1])>>)

\* one element of the tensor a kernel of tensor::ops::nonlinearities
\* returns: the kernel's value at x, an IntegerRep, kept as the application
NonlinearityAt(kernel, x) == [kernel |-> kernel, at |-> x]

\* a field element of the output: its value, or integer_rep_to_felt of a
\* kernel's value that is kept as an application
Felt(v) == [felt |-> v]

FeltOf(v) == Felt([integer_rep_to_felt |-> v])

\* kronecker_delta, the one kernel that is exact integer arithmetic
kronecker_delta(x) == IF x = 0 THEN 1 ELSE 0

f(self, x) ==
    IF Len(x) = 0 THEN Panic("index out of bounds: the len is 0 but the index is 0")
    ELSE LET xi  == [i \in 1..Len(x[1]) |-> felt_to_integer_rep(x[1][i])]
             ker == kernel_of(self)
         IN  Ok([output |->
                    [i \in 1..Len(xi) |->
                        IF ker.name = "kronecker_delta"
                        THEN Felt(integer_rep_to_felt(kronecker_delta(xi[i])))
                        ELSE FeltOf(NonlinearityAt(ker, xi[i]))]])

\* the operands tried: up to MaxOperands tensors of up to MaxTensorLen
\* field elements each
MaxOperands == 2

MaxTensorLen == 2

SeqsUpTo(S, n) == UNION {[1..k -> S] : k \in 0..n}

Tensors == SeqsUpTo(Felts, MaxTensorLen)

\* the parameters of the operations handed to f, layout and out_scale
EvalValues == {F32Pow2(0, 0), F32Pow2(0, 1)}

InitEval ==
    /\ entry = "f"
    /\ args \in [self : LookupOps(EvalValues), x : SeqsUpTo(Tensors, MaxOperands)]
    /\ ret = Pending
    /\ config = 0
    /\ region = 0
    /\ nl_calls = NoCalls

CallF ==
    /\ entry = "f"
    /\ ret.kind = "Pending"
    /\ ret' = f(args.self, args.x)
    /\ UNCHANGED <<entry, args, config, region, nl_calls>>

NextEval == CallF

SpecEval == InitEval /\ [][NextEval]_vars

\* C1: for every operand list whose length is not exactly 1, f returns an
\* error value, whatever the operation: it neither aborts nor produces a
\* ForwardResult.
C1_WrongArityIsError ==
    (entry = "f" /\ ret.kind # "Pending" /\ Len(args.x) # 1) => ret.kind = "Err"

\* what f does with its operands: it aborts on none, and otherwise
\* evaluates the first and never looks at the others
FirstOperandOnly ==
    (entry = "f" /\ ret.kind # "Pending") =>
        IF Len(args.x) = 0 THEN ret.kind = "Panic"
        ELSE /\ ret.kind = "Ok"
             /\ Len(ret.val.output) = Len(args.x[1])
             /\ ret = f(args.self, <<args.x[1]>>)

(***************************************************************************)
(* out_scale (lookup.rs 323-334)                                           *)
(***************************************************************************)
\* graph::multiplier_to_scale: the scale of a multiplier is its binary
\* logarithm rounded to an integer; of the power of two 2^e it is e
multiplier_to_scale(mult) ==
    CASE F64IsPow2(mult) /\ mult.sign = 0 -> mult.exp - F64ExpBias

\* out_scale with the default arm reading the last input scale
out_scale_last(self, inputs_scale) ==
    CASE self.tag = "Cast" ->
            IF Len(inputs_scale) = 0
            THEN Panic("index out of bounds: the len is 0 but the index is 0")
            ELSE Ok(inputs_scale[1]
                    + multiplier_to_scale(F64Recip(F32ToF64(self.params[1]))))
      [] self.tag = "Recip" -> Ok(multiplier_to_scale(F32ToF64(self.params[2])))
      [] self.tag = "KroneckerDelta" -> Ok(0)
      [] OTHER ->
            IF Len(inputs_scale) = 0
            THEN Panic("index out of bounds: the len is 0 but the index is 0")
            ELSE Ok(inputs_scale[Len(inputs_scale)])

\* out_scale with Cast adding the scale of `scale` itself, not of 1/scale
out_scale_cast_direct(self, inputs_scale) ==
    CASE self.tag = "Cast" ->
            IF Len(inputs_scale) = 0
            THEN Panic("index out of bounds: the len is 0 but the index is 0")
            ELSE Ok(inputs_scale[1] + multiplier_to_scale(F32ToF64(self.params[1])))
      [] self.tag = "Recip" -> Ok(multiplier_to_scale(F32ToF64(self.params[2])))
      [] self.tag = "KroneckerDelta" -> Ok(0)
      [] OTHER ->
            IF Len(inputs_scale) = 0
            THEN Panic("index out of bounds: the len is 0 but the index is 0")
            ELSE Ok(inputs_scale[1])

\* out_scale with Recip keeping the input scale, like the default arm
out_scale_recip_default(self, inputs_scale) ==
    CASE self.tag = "Cast" ->
            IF Len(inputs_scale) = 0
            THEN Panic("index out of bounds: the len is 0 but the index is 0")
            ELSE Ok(inputs_scale[1]
                    + multiplier_to_scale(F64Recip(F32ToF64(self.params[1]))))
      [] self.tag = "KroneckerDelta" -> Ok(0)
      [] OTHER ->
            IF Len(inputs_scale) = 0
            THEN Panic("index out of bounds: the len is 0 but the index is 0")
            ELSE Ok(inputs_scale[1])

out_scale(self, inputs_scale) ==
    CASE self.tag = "Cast" ->
            IF Len(inputs_scale) = 0
            THEN Panic("index out of bounds: the len is 0 but the index is 0")
            ELSE LET in_scale == inputs_scale[1]
                 IN  Ok(in_scale
                        + multiplier_to_scale(F64Recip(F32ToF64(self.params[1]))))
      [] self.tag = "Recip" -> Ok(multiplier_to_scale(F32ToF64(self.params[2])))
      [] self.tag = "KroneckerDelta" -> Ok(0)
      [] OTHER ->
            IF Len(inputs_scale) = 0
            THEN Panic("index out of bounds: the len is 0 but the index is 0")
            ELSE Ok(inputs_scale[1])

\* the input scales tried: up to MaxScales scales, each of
\* -MaxScale..MaxScale or one of the scales 4 and 7 of the documented
\* examples
MaxScale == 2

MaxScales == 2

Scales == ((0 - MaxScale)..MaxScale) \cup {4, 7}

F32IsPosPow2(x) == x.sign = 0 /\ x.exp > 0 /\ x.exp < F32ExpMax /\ x.mant = 0

\* the operations handed to out_scale: the multiplier whose scale it takes
\* (Cast's scale, Recip's output_scale) is a positive power of two, every
\* other parameter is any of F32Values
ScaleOps ==
    {op \in LookupOps(F32Values) :
        /\ op.tag = "Cast" => F32IsPosPow2(op.params[1])
        /\ op.tag = "Recip" => F32IsPosPow2(op.params[2])}

InitScale ==
    /\ entry = "out_scale"
    /\ args \in [self : ScaleOps, inputs_scale : SeqsUpTo(Scales, MaxScales)]
    /\ ret = Pending
    /\ config = 0
    /\ region = 0
    /\ nl_calls = NoCalls

CallOutScale ==
    /\ entry = "out_scale"
    /\ ret.kind = "Pending"
    /\ ret' = out_scale(args.self, args.inputs_scale)
    /\ UNCHANGED <<entry, args, config, region, nl_calls>>

NextScale == CallOutScale

SpecScale == InitScale /\ [][NextScale]_vars

OutScaleCalled == entry = "out_scale" /\ ret.kind # "Pending"

\* the exponent e of the power of two 2^e
F32Exponent(x) == x.exp - F32ExpBias

\* C4: for every non-empty list of input scales and every operation other
\* than Cast, Recip and KroneckerDelta, out_scale succeeds and returns the
\* first input scale, whatever the parameters and the later scales.
C4_DefaultKeepsInputScale ==
    (/\ OutScaleCalled
     /\ args.self.tag \notin {"Cast", "Recip", "KroneckerDelta"}
     /\ Len(args.inputs_scale) >= 1) =>
        ret = Ok(args.inputs_scale[1])

C4_Witness ==
    /\ OutScaleCalled
    /\ args.self = LookupOp("Sqrt", <<F32(0, F32ExpMax, F32QuietBit)>>)
    /\ args.inputs_scale = <<4, 0 - 2>>
    /\ ret = Ok(4)

C6_RecipAndDeltaIgnoreInputs ==
    OutScaleCalled =>
        /\ args.self.tag = "Recip" =>
               /\ ret = Ok(multiplier_to_scale(F32ToF64(args.self.params[2])))
               /\ ret = Ok(F32Exponent(args.self.params[2]))
        /\ args.self.tag = "KroneckerDelta" => ret = Ok(0)

C6_Witness ==
    /\ OutScaleCalled
    /\ args.self = LookupOp("Recip", <<F32Pow2(0, 0 - 1), F32Pow2(0, 1)>>)
    /\ args.inputs_scale = <<7, 0 - 2>>
    /\ ret = Ok(1)

(***************************************************************************)
(* layout (lookup.rs 308-320)                                              *)
(***************************************************************************)
Some(v) == [some |-> TRUE, val |-> v]

None == [some |-> FALSE, val |-> <<>>]

\* the ways a call of layouts::nonlinearity can end: with the output
\* tensor assigned, with an error before it touched the circuit, or with
\* an error after it assigned cells
NlOutcomes == {"ok", "err_early", "err_late"}

\* layouts::nonlinearity(config, region, values, nl): the layout engine.
\* It turns on the lookup of the operation in the configuration, assigns
\* the operand and the output in the region and returns the output tensor,
\* or a CircuitError.
nonlinearity(cfg, reg, operand, nl, outcome) ==
    CASE outcome = "ok" ->
            [res |-> Ok([lookup |-> nl, of |-> operand[1], at |-> reg]),
             config |-> cfg + 1, region |-> reg + 1]
      [] outcome = "err_early" ->
            [res |-> Err([circuit_error |-> "table", op |-> nl.tag]),
             config |-> cfg, region |-> reg]
      [] outcome = "err_late" ->
            [res |-> Err([circuit_error |-> "region", op |-> nl.tag]),
             config |-> cfg + 1, region |-> reg + 1]

\* `values[..].try_into()`: the slice as an array of one ValTensor
TryIntoArray1(values) ==
    IF Len(values) = 1 THEN Ok(<<values[1]>>)
    ELSE Err([circuit_error |-> "TryFromSliceError"])

\* layout without the conversion to an array of one: the first operand is
\* laid out whenever there is one
layout_first_operand(self, cfg, reg, values, outcome) ==
    IF Len(values) = 0
    THEN [ret |-> Err([circuit_error |-> "TryFromSliceError"]),
          config |-> cfg, region |-> reg, calls |-> <<>>]
    ELSE LET r == nonlinearity(cfg, reg, <<values[1]>>, self, outcome)
         IN  [ret    |-> IF r.res.kind = "Ok" THEN Ok(Some(r.res.val)) ELSE r.res,
              config |-> r.config,
              region |-> r.region,
              calls  |-> <<[operand |-> <<values[1]>>, nl |-> self, res |-> r.res]>>]

\* layout swallowing the engine's error into an absent tensor
layout_error_as_none(self, cfg, reg, values, outcome) ==
    LET arr == TryIntoArray1(values)
    IN  IF arr.kind = "Err"
        THEN [ret |-> arr, config |-> cfg, region |-> reg, calls |-> <<>>]
        ELSE LET r == nonlinearity(cfg, reg, arr.val, self, outcome)
             IN  [ret    |-> IF r.res.kind = "Ok" THEN Ok(Some(r.res.val)) ELSE Ok(None),
                  config |-> r.config,
                  region |-> r.region,
                  calls  |-> <<[operand |-> arr.val, nl |-> self, res |-> r.res]>>]

\* what layout returns, what it leaves in the configuration and the
\* region, and the calls of layouts::nonlinearity it made
layout(self, cfg, reg, values, outcome) ==
    LET arr == TryIntoArray1(values)
    IN  IF arr.kind = "Err"
        THEN [ret |-> arr, config |-> cfg, region |-> reg, calls |-> <<>>]
        ELSE LET r == nonlinearity(cfg, reg, arr.val, self, outcome)
             IN  [ret    |-> IF r.res.kind = "Ok" THEN Ok(Some(r.res.val)) ELSE r.res,
                  config |-> r.config,
                  region |-> r.region,
                  calls  |-> <<[operand |-> arr.val, nl |-> self, res |-> r.res]>>]

\* the operands tried, and the lookups and rows already in the circuit
ValTensors == {"v1", "v2"}

MaxLookups == 2

MaxRows == 2

InitLayout ==
    /\ entry = "layout"
    /\ args \in [self : LookupOps(EvalValues), values : SeqsUpTo(ValTensors, MaxOperands)]
    /\ ret = Pending
    /\ config \in 0..MaxLookups
    /\ region \in 0..MaxRows
    /\ nl_calls = NoCalls

CallLayout ==
    /\ entry = "layout"
    /\ ret.kind = "Pending"
    /\ \E outcome \in NlOutcomes :
        LET done == layout(args.self, config, region, args.values, outcome)
        IN  /\ ret' = done.ret
            /\ config' = done.config
            /\ region' = done.region
            /\ nl_calls' = [count |-> nl_calls.count + Len(done.calls),
                            last  |-> IF done.calls = <<>> THEN nl_calls.last
                                      ELSE done.calls]
    /\ UNCHANGED <<entry, args>>

NextLayout == CallLayout

SpecLayout == InitLayout /\ [][NextLayout]_vars

LayoutCalled == entry = "layout" /\ ret.kind # "Pending"

\* C7: given exactly one operand, layout calls layouts::nonlinearity
\* exactly once, with that operand and with the operation itself as
\* descriptor, and returns that call's result: the output tensor as
\* Some(tensor), never None, or the call's error unchanged.
C7_LayoutDelegatesOnce ==
    (LayoutCalled /\ Len(args.values) = 1) =>
        /\ nl_calls.count = 1
        /\ Len(nl_calls.last) = 1
        /\ nl_calls.last[1].nl = args.self
        /\ nl_calls.last[1].operand = args.values
        /\ IF nl_calls.last[1].res.kind = "Ok"
           THEN ret = Ok(Some(nl_calls.last[1].res.val))
           ELSE ret = nl_calls.last[1].res

C7_Witness ==
    /\ LayoutCalled
    /\ args.values = <<"v2">>
    /\ args.self.tag = "Sigmoid"
    /\ nl_calls.count = 1
    /\ ret.kind = "Err"

\* C8: given another number of operands than one, layout returns an error
\* and does not call layouts::nonlinearity: the configuration and the
\* region are left as they were.
C8_WrongArityLeavesCircuit ==
    [][(entry = "layout" /\ Len(args.values) # 1) =>
          /\ ret'.kind = "Err"
          /\ UNCHANGED <<config, region, nl_calls>>]_vars

C8_Witness ==
    /\ LayoutCalled
    /\ Len(args.values) = 2
    /\ ret.kind = "Err"
    /\ config = 1
    /\ region = 2
    /\ nl_calls = NoCalls

(***************************************************************************)
(* Every entry point together: a behaviour is one call of any of them      *)
(***************************************************************************)
Init == InitRange \/ InitPath \/ InitEval \/ InitScale \/ InitLayout

Next == CallBitRange \/ CallAsPath \/ CallF \/ CallOutScale \/ CallLayout

Spec == Init /\ [][Next]_vars

====
